---- MODULE Spec2Model ----
(***************************************************************************)
(* Model of the emergency-healthcare RAG repository:                       *)
(*   - src/1_indexing.py and src/2_chunking_embedding_ingestion.py, the    *)
(*     two indexing scripts, as one state machine with one action per      *)
(*     numbered step of each script;                                       *)
(*   - src/model.py, predict()'s parse step, as operators over strings.    *)
(***************************************************************************)
EXTENDS Integers, Sequences, FiniteSets, Bags, TLC

VARIABLES
    topics_json,             \* data/topics.json: NoFile or the Topic Map stored in it
    topics_dir,              \* data/topics/: folder name -> (file name -> file content)
    db,                      \* db[s]: the index at the DATABASE_LOCATION script s is run with
    script,                  \* the script the running process executes (0: none yet)
    pc,                      \* position of the running process
    topic_map,               \* topic_map
    topic_folders,           \* folders of the for loop not yet visited
    folder_name,             \* folder_name
    topic_id,                \* topic_id
    md_files,                \* files of md_files_in_folder not yet visited
    all_docs,                \* all_docs
    processed_topics_count,  \* processed_topics_count
    exit_status,             \* <<>> while a process runs, else <<its exit status>>
    log,                     \* what the running process has printed
    runs,                    \* number of processes started so far
    history,                 \* one record per process started, filled in when it ends
    response_str,            \* predict: the raw text llm.invoke returned
    prediction               \* predict: how the call ended

indexVars == <<topics_json, topics_dir, db, script, pc, topic_map, topic_folders,
               folder_name, topic_id, md_files, all_docs, processed_topics_count,
               exit_status, log, runs, history>>
predictVars == <<response_str, prediction>>
vars == <<indexVars, predictVars>>

----------------------------------------------------------------------------
(* Bounds *)

\* documents split_text returns for one file, at most
MaxChunks == 1
\* processes started in one behaviour, at most
MaxRuns == 2
\* the largest integer the generative model writes in a response
MaxIntLit == 10

----------------------------------------------------------------------------
(* The file system the indexing scripts read.  Each script is run in a    *)
(* deployment of its own, against the same Topic Map and corpus: db[s] is  *)
(* the index at the storage location of script s, and both locations hold  *)
(* the same prior index when the behaviour starts.  One process runs at a  *)
(* time.                                                                   *)

Scripts == {1, 2}
FolderNames == {"f1", "f2"}
TopicIds == {1, 2}
MdNames == {"a.md", "b.md"}
OtherNames == {"notes.txt"}

\* A path that does not exist, and what is stored at one that does.
NoFile == [exists |-> FALSE, map |-> <<>>]
File(m) == [exists |-> TRUE, map |-> m]
NoDb == [exists |-> FALSE, docs |-> EmptyBag]
Index(b) == [exists |-> TRUE, docs |-> b]
None == [none |-> TRUE]

\* f.endswith('.md')
EndsWithMd(f) == f \in MdNames

\* A file's content: open()/read() or split_text raises on it, or split_text
\* returns n chunks.
Unreadable == [ok |-> FALSE, n |-> 0]
Contents == {Unreadable} \cup {[ok |-> TRUE, n |-> k] : k \in 0..MaxChunks}

\* A topic folder holds any of the .md files, and one file that is no .md file.
OtherFiles == [f \in OtherNames |-> [ok |-> TRUE, n |-> 1]]
FolderListings == {m @@ OtherFiles : m \in UNION {[M -> Contents] : M \in SUBSET MdNames}}

TopicMaps == UNION {[K -> TopicIds] : K \in SUBSET FolderNames}
TopicDirs == UNION {[D -> FolderListings] : D \in SUBSET FolderNames}

\* An index left at the storage location by something earlier.
StaleDoc == [page_content |-> 1, source_file |-> "old.md", topic_name |-> "old", topic_id |-> 9]
PriorDbs == {NoDb, Index(SetToBag({StaleDoc}))}

Document(chunk, md_file, folder, id) ==
    [page_content |-> chunk, source_file |-> md_file, topic_name |-> folder, topic_id |-> id]

RECURSIVE SeqToBag(_)
SeqToBag(s) == IF s = <<>> THEN EmptyBag ELSE SetToBag({Head(s)}) (+) SeqToBag(Tail(s))

Entry(tag, folder, file) == [tag |-> tag, folder |-> folder, file |-> file]
Say(tag) == Entry(tag, "", "")

\* The steps a process announced, in order: the removal of the old index, the
\* load of the Topic Map, the folder loop and the index write.
StepTags == {"removing_old_db", "loading", "processing", "creating"}
IsStep(e) == e.tag \in StepTags
Steps(printed) == [i \in DOMAIN SelectSeq(printed, IsStep) |-> SelectSeq(printed, IsStep)[i].tag]

\* What a process that has ended leaves in the history.
Ended(outcome, status, index, printed) ==
    [script |-> script, prior |-> history[Len(history)].prior, outcome |-> outcome,
     status |-> <<status>>, index |-> index, steps |-> Steps(printed)]

Finish(outcome, status, index, printed) ==
    /\ pc' = outcome
    /\ exit_status' = <<status>>
    /\ log' = printed
    /\ history' = [history EXCEPT ![Len(history)] = Ended(outcome, status, index, printed)]

\* The chunks of one file as documents, in split_text's order.
Docs(folder, md_file, id) ==
    [i \in 1..topics_dir[folder][md_file].n |-> Document(i, md_file, folder, id)]

\* Where the for loops go next: the next file, else the next folder, else step 6.
LoopPc(files, folders) ==
    IF files # {} THEN "files" ELSE IF folders # {} THEN "folders" ELSE "report"

----------------------------------------------------------------------------
(* src/1_indexing.py *)

\* lines 11-24: the process starts
Start1 ==
    /\ pc \in {"idle", "exited", "done"}
    /\ runs < MaxRuns
    /\ runs' = runs + 1
    /\ script' = 1
    /\ pc' = "cleanup"
    /\ log' = <<Say("starting"), Say("initializing")>>
    /\ exit_status' = <<>>
    /\ topic_map' = <<>>
    /\ topic_folders' = {}
    /\ folder_name' = ""
    /\ topic_id' = 0
    /\ md_files' = {}
    /\ all_docs' = <<>>
    /\ processed_topics_count' = 0
    /\ history' = Append(history, [script |-> 1, prior |-> db[1], outcome |-> "running",
                                   status |-> <<>>, index |-> db[1], steps |-> <<>>])
    /\ UNCHANGED <<topics_json, topics_dir, db, predictVars>>

\* step 3 without the removal of the old index
CleanUp1KeepsIndex ==
    /\ script = 1 /\ pc = "cleanup"
    /\ pc' = "load"
    /\ UNCHANGED <<topics_json, topics_dir, db, script, topic_map, topic_folders, folder_name,
                   topic_id, md_files, all_docs, processed_topics_count, exit_status, log,
                   runs, history, predictVars>>

\* lines 26-29: step 3, clean up old database
CleanUp1 ==
    /\ script = 1 /\ pc = "cleanup"
    /\ IF db[1].exists
       THEN /\ log' = Append(log, Say("removing_old_db"))
            /\ db' = [db EXCEPT ![1] = NoDb]
       ELSE UNCHANGED <<log, db>>
    /\ pc' = "load"
    /\ UNCHANGED <<topics_json, topics_dir, script, topic_map, topic_folders, folder_name,
                   topic_id, md_files, all_docs, processed_topics_count, exit_status,
                   runs, history, predictVars>>

\* lines 31-38: step 4, load topics.json
LoadTopics1 ==
    /\ script = 1 /\ pc = "load"
    /\ IF ~topics_json.exists
       THEN /\ Finish("exited", 0, db[1], log \o <<Say("loading"), Say("error_no_topic_map")>>)
            /\ UNCHANGED topic_map
       ELSE /\ topic_map' = topics_json.map
            /\ pc' = "list"
            /\ log' = Append(log, Say("loading"))
            /\ UNCHANGED <<exit_status, history>>
    /\ UNCHANGED <<topics_json, topics_dir, db, script, topic_folders, folder_name,
                   topic_id, md_files, all_docs, processed_topics_count, runs, predictVars>>

\* lines 40-46: step 5 up to the listing of the topic folders
ListFolders1 ==
    /\ script = 1 /\ pc = "list"
    /\ log' = Append(log, Say("processing"))
    /\ all_docs' = <<>>
    /\ processed_topics_count' = 0
    /\ topic_folders' = DOMAIN topics_dir
    /\ pc' = LoopPc({}, DOMAIN topics_dir)
    /\ UNCHANGED <<topics_json, topics_dir, db, script, topic_map, folder_name, topic_id,
                   md_files, exit_status, runs, history, predictVars>>

\* the folder loop numbering the folders as it meets them, instead of
\* looking their id up
NextFolder1CountedId ==
    /\ script = 1 /\ pc = "folders"
    /\ \E d \in topic_folders :
        LET rest == topic_folders \ {d}
            found == {f \in DOMAIN topics_dir[d] : EndsWithMd(f)}
        IN  /\ folder_name' = d
            /\ topic_folders' = rest
            /\ IF d \in DOMAIN topic_map
               THEN /\ topic_id' = processed_topics_count + 1
                    /\ processed_topics_count' = processed_topics_count + 1
                    /\ md_files' = found
                    /\ log' = IF found = {} THEN Append(log, Entry("note_no_md", d, "")) ELSE log
                    /\ pc' = LoopPc(found, rest)
               ELSE /\ log' = Append(log, Entry("warning_unmapped", d, ""))
                    /\ pc' = LoopPc({}, rest)
                    /\ UNCHANGED <<topic_id, processed_topics_count, md_files>>
    /\ UNCHANGED <<topics_json, topics_dir, db, script, topic_map, all_docs, exit_status,
                   runs, history, predictVars>>

\* the folder loop warning about a folder that is no Topic Map key and
\* processing it all the same, under topic id 0
NextFolder1KeepsUnmapped ==
    /\ script = 1 /\ pc = "folders"
    /\ \E d \in topic_folders :
        LET rest == topic_folders \ {d}
            found == {f \in DOMAIN topics_dir[d] : EndsWithMd(f)}
        IN  /\ folder_name' = d
            /\ topic_folders' = rest
            /\ topic_id' = IF d \in DOMAIN topic_map THEN topic_map[d] ELSE 0
            /\ processed_topics_count' = processed_topics_count + 1
            /\ md_files' = found
            /\ log' = IF d \notin DOMAIN topic_map
                      THEN Append(log, Entry("warning_unmapped", d, ""))
                      ELSE IF found = {} THEN Append(log, Entry("note_no_md", d, ""))
                      ELSE log
            /\ pc' = LoopPc(found, rest)
    /\ UNCHANGED <<topics_json, topics_dir, db, script, topic_map, all_docs, exit_status,
                   runs, history, predictVars>>

\* lines 48-60 and 82-83: one turn of the folder loop, up to the file loop
NextFolder1 ==
    /\ script = 1 /\ pc = "folders"
    /\ \E d \in topic_folders :
        LET rest == topic_folders \ {d}
            found == {f \in DOMAIN topics_dir[d] : EndsWithMd(f)}
        IN  /\ folder_name' = d
            /\ topic_folders' = rest
            /\ IF d \in DOMAIN topic_map
               THEN /\ topic_id' = topic_map[d]
                    /\ processed_topics_count' = processed_topics_count + 1
                    /\ md_files' = found
                    /\ log' = IF found = {} THEN Append(log, Entry("note_no_md", d, "")) ELSE log
                    /\ pc' = LoopPc(found, rest)
               ELSE /\ log' = Append(log, Entry("warning_unmapped", d, ""))
                    /\ pc' = LoopPc({}, rest)
                    /\ UNCHANGED <<topic_id, processed_topics_count, md_files>>
    /\ UNCHANGED <<topics_json, topics_dir, db, script, topic_map, all_docs, exit_status,
                   runs, history, predictVars>>

\* the file loop with the try statement around the whole loop: a failure
\* ends the folder
ProcessFile1AbortsFolder ==
    /\ script = 1 /\ pc = "files"
    /\ \E md_file \in md_files :
        LET ok == topics_dir[folder_name][md_file].ok
            rest == IF ok THEN md_files \ {md_file} ELSE {}
        IN  /\ md_files' = rest
            /\ pc' = LoopPc(rest, topic_folders)
            /\ IF ok
               THEN /\ all_docs' = all_docs \o Docs(folder_name, md_file, topic_id)
                    /\ UNCHANGED log
               ELSE /\ log' = Append(log, Entry("error_file", folder_name, md_file))
                    /\ UNCHANGED all_docs
    /\ UNCHANGED <<topics_json, topics_dir, db, script, topic_map, topic_folders, folder_name,
                   topic_id, processed_topics_count, exit_status, runs, history, predictVars>>

\* lines 62-81: one turn of the file loop
ProcessFile1 ==
    /\ script = 1 /\ pc = "files"
    /\ \E md_file \in md_files :
        LET rest == md_files \ {md_file}
        IN  /\ md_files' = rest
            /\ pc' = LoopPc(rest, topic_folders)
            /\ IF topics_dir[folder_name][md_file].ok
               THEN /\ all_docs' = all_docs \o Docs(folder_name, md_file, topic_id)
                    /\ UNCHANGED log
               ELSE /\ log' = Append(log, Entry("error_file", folder_name, md_file))
                    /\ UNCHANGED all_docs
    /\ UNCHANGED <<topics_json, topics_dir, db, script, topic_map, topic_folders, folder_name,
                   topic_id, processed_topics_count, exit_status, runs, history, predictVars>>

\* step 6 without the check for an empty collection
FinalReport1NoCheck ==
    /\ script = 1 /\ pc = "report"
    /\ pc' = "store"
    /\ log' = Append(log, Say("summary"))
    /\ UNCHANGED <<topics_json, topics_dir, db, script, topic_map, topic_folders, folder_name,
                   topic_id, md_files, all_docs, processed_topics_count, exit_status,
                   runs, history, predictVars>>

\* lines 86-91: step 6, final report
FinalReport1 ==
    /\ script = 1 /\ pc = "report"
    /\ IF all_docs = <<>>
       THEN Finish("exited", 0, db[1], log \o <<Say("summary"), Say("critical_no_documents")>>)
       ELSE /\ pc' = "store"
            /\ log' = Append(log, Say("summary"))
            /\ UNCHANGED <<exit_status, history>>
    /\ UNCHANGED <<topics_json, topics_dir, db, script, topic_map, topic_folders, folder_name,
                   topic_id, md_files, all_docs, processed_topics_count, runs, predictVars>>

\* lines 93-102: step 7, create and populate the vector store
CreateStore1 ==
    /\ script = 1 /\ pc = "store"
    /\ LET new == Index(db[1].docs (+) SeqToBag(all_docs))
       IN  /\ db' = [db EXCEPT ![1] = new]
           /\ Finish("done", 0, new, log \o <<Say("creating"), Say("complete")>>)
    /\ UNCHANGED <<topics_json, topics_dir, script, topic_map, topic_folders, folder_name,
                   topic_id, md_files, all_docs, processed_topics_count, runs, predictVars>>

----------------------------------------------------------------------------
(* src/2_chunking_embedding_ingestion.py *)

\* lines 17-29: the process starts
Start2 ==
    /\ pc \in {"idle", "exited", "done"}
    /\ runs < MaxRuns
    /\ runs' = runs + 1
    /\ script' = 2
    /\ pc' = "cleanup"
    /\ log' = <<Say("starting"), Say("initializing")>>
    /\ exit_status' = <<>>
    /\ topic_map' = <<>>
    /\ topic_folders' = {}
    /\ folder_name' = ""
    /\ topic_id' = 0
    /\ md_files' = {}
    /\ all_docs' = <<>>
    /\ processed_topics_count' = 0
    /\ history' = Append(history, [script |-> 2, prior |-> db[2], outcome |-> "running",
                                   status |-> <<>>, index |-> db[2], steps |-> <<>>])
    /\ UNCHANGED <<topics_json, topics_dir, db, predictVars>>

\* lines 31-34: step 3, clean up old database
CleanUp2 ==
    /\ script = 2 /\ pc = "cleanup"
    /\ IF db[2].exists
       THEN /\ log' = Append(log, Say("removing_old_db"))
            /\ db' = [db EXCEPT ![2] = NoDb]
       ELSE UNCHANGED <<log, db>>
    /\ pc' = "load"
    /\ UNCHANGED <<topics_json, topics_dir, script, topic_map, topic_folders, folder_name,
                   topic_id, md_files, all_docs, processed_topics_count, exit_status,
                   runs, history, predictVars>>

\* step 4 going on with an empty Topic Map when the file is missing
LoadTopics2DefaultsToEmptyMap ==
    /\ script = 2 /\ pc = "load"
    /\ topic_map' = topics_json.map
    /\ pc' = "list"
    /\ log' = Append(log, Say("loading"))
    /\ UNCHANGED <<topics_json, topics_dir, db, script, topic_folders, folder_name,
                   topic_id, md_files, all_docs, processed_topics_count, exit_status,
                   runs, history, predictVars>>

\* lines 36-43: step 4, load topics.json
LoadTopics2 ==
    /\ script = 2 /\ pc = "load"
    /\ IF ~topics_json.exists
       THEN /\ Finish("exited", 0, db[2], log \o <<Say("loading"), Say("error_no_topic_map")>>)
            /\ UNCHANGED topic_map
       ELSE /\ topic_map' = topics_json.map
            /\ pc' = "list"
            /\ log' = Append(log, Say("loading"))
            /\ UNCHANGED <<exit_status, history>>
    /\ UNCHANGED <<topics_json, topics_dir, db, script, topic_folders, folder_name,
                   topic_id, md_files, all_docs, processed_topics_count, runs, predictVars>>

\* lines 45-51: step 5 up to the listing of the topic folders
ListFolders2 ==
    /\ script = 2 /\ pc = "list"
    /\ log' = Append(log, Say("processing"))
    /\ all_docs' = <<>>
    /\ processed_topics_count' = 0
    /\ topic_folders' = DOMAIN topics_dir
    /\ pc' = LoopPc({}, DOMAIN topics_dir)
    /\ UNCHANGED <<topics_json, topics_dir, db, script, topic_map, folder_name, topic_id,
                   md_files, exit_status, runs, history, predictVars>>

\* lines 53-64 and 88-89: one turn of the folder loop, up to the file loop
NextFolder2 ==
    /\ script = 2 /\ pc = "folders"
    /\ \E d \in topic_folders :
        LET rest == topic_folders \ {d}
            found == {f \in DOMAIN topics_dir[d] : EndsWithMd(f)}
        IN  /\ folder_name' = d
            /\ topic_folders' = rest
            /\ IF d \in DOMAIN topic_map
               THEN /\ topic_id' = topic_map[d]
                    /\ processed_topics_count' = processed_topics_count + 1
                    /\ md_files' = found
                    /\ log' = IF found = {} THEN Append(log, Entry("note_no_md", d, "")) ELSE log
                    /\ pc' = LoopPc(found, rest)
               ELSE /\ log' = Append(log, Entry("warning_unmapped", d, ""))
                    /\ pc' = LoopPc({}, rest)
                    /\ UNCHANGED <<topic_id, processed_topics_count, md_files>>
    /\ UNCHANGED <<topics_json, topics_dir, db, script, topic_map, all_docs, exit_status,
                   runs, history, predictVars>>

\* lines 66-87: one turn of the file loop
ProcessFile2 ==
    /\ script = 2 /\ pc = "files"
    /\ \E md_file \in md_files :
        LET rest == md_files \ {md_file}
        IN  /\ md_files' = rest
            /\ pc' = LoopPc(rest, topic_folders)
            /\ IF topics_dir[folder_name][md_file].ok
               THEN /\ all_docs' = all_docs \o Docs(folder_name, md_file, topic_id)
                    /\ UNCHANGED log
               ELSE /\ log' = Append(log, Entry("error_file", folder_name, md_file))
                    /\ UNCHANGED all_docs
    /\ UNCHANGED <<topics_json, topics_dir, db, script, topic_map, topic_folders, folder_name,
                   topic_id, processed_topics_count, exit_status, runs, history, predictVars>>

\* lines 92-97: step 6, final report
FinalReport2 ==
    /\ script = 2 /\ pc = "report"
    /\ IF all_docs = <<>>
       THEN Finish("exited", 0, db[2], Append(log, Say("critical_no_documents")))
       ELSE /\ pc' = "store"
            /\ log' = Append(log, Say("summary"))
            /\ UNCHANGED <<exit_status, history>>
    /\ UNCHANGED <<topics_json, topics_dir, db, script, topic_map, topic_folders, folder_name,
                   topic_id, md_files, all_docs, processed_topics_count, runs, predictVars>>

\* lines 99-108: step 7, create and populate the vector store
CreateStore2 ==
    /\ script = 2 /\ pc = "store"
    /\ LET new == Index(db[2].docs (+) SeqToBag(all_docs))
       IN  /\ db' = [db EXCEPT ![2] = new]
           /\ Finish("done", 0, new, log \o <<Say("creating"), Say("complete")>>)
    /\ UNCHANGED <<topics_json, topics_dir, script, topic_map, topic_folders, folder_name,
                   topic_id, md_files, all_docs, processed_topics_count, runs, predictVars>>

----------------------------------------------------------------------------
(* src/model.py: predict, step 4 (parse)                                   *)
(*                                                                         *)
(* Texts are strings; Ch, SubSeq and \o work on them character by          *)
(* character.  The backtick cannot be written in a string of this          *)
(* language, so "^" stands for it throughout: "^^^json" is the 7-character *)
(* marker that opens a JSON code fence and "^^^" the 3-character fence     *)
(* that closes one.                                                        *)

Ch(s, i) == SubSeq(s, i, i)

Fence == "^^^"
FenceMarker == "^^^json"

\* str.startswith
StartsWith(s, prefix) ==
    Len(s) >= Len(prefix) /\ SubSeq(s, 1, Len(prefix)) = prefix

\* s[lo:-hi] for lo >= 0 and hi > 0: empty when the two cuts meet
Slice(s, lo, hi) ==
    IF Len(s) - hi > lo THEN SubSeq(s, lo + 1, Len(s) - hi) ELSE ""

(* json.loads, for texts without backslash escapes and without exponents: *)
(* values are null, true, false, NaN, Infinity, numbers, strings, arrays   *)
(* and objects.                                                            *)

Whitespace == {" ", "\n", "\t", "\r"}
Digits == {"0", "1", "2", "3", "4", "5", "6", "7", "8", "9"}

DigitValue(c) ==
    CASE c = "0" -> 0 [] c = "1" -> 1 [] c = "2" -> 2 [] c = "3" -> 3 [] c = "4" -> 4
      [] c = "5" -> 5 [] c = "6" -> 6 [] c = "7" -> 7 [] c = "8" -> 8 [] c = "9" -> 9

JNull == [t |-> "null"]
JBool(b) == [t |-> "bool", n |-> IF b THEN 1 ELSE 0]
JInt(n) == [t |-> "int", n |-> n]
\* a float, by its value truncated towards zero; NaN and the infinities by name
JFloat(kind, n) == [t |-> "float", kind |-> kind, n |-> n]
JStr(s) == [t |-> "str", s |-> s]
JList(items) == [t |-> "list", items |-> items]
JDict(d) == [t |-> "dict", d |-> d]

Parsed(v, i) == [ok |-> TRUE, v |-> v, i |-> i]
Bad == [ok |-> FALSE, v |-> JNull, i |-> 0]

RECURSIVE SkipWs(_, _)
SkipWs(s, i) == IF i <= Len(s) /\ Ch(s, i) \in Whitespace THEN SkipWs(s, i + 1) ELSE i

\* the digits from position i on: their value and the position after them
RECURSIVE ScanDigits(_, _, _)
ScanDigits(s, i, acc) ==
    IF i <= Len(s) /\ Ch(s, i) \in Digits
    THEN ScanDigits(s, i + 1, 10 * acc + DigitValue(Ch(s, i)))
    ELSE [n |-> acc, i |-> i]

\* -?(0|[1-9][0-9]*)(\.[0-9]+)?
ScanNumber(s, i) ==
    LET neg == i <= Len(s) /\ Ch(s, i) = "-"
        j == IF neg THEN i + 1 ELSE i
        whole == IF j <= Len(s) /\ Ch(s, j) = "0" THEN [n |-> 0, i |-> j + 1]
                 ELSE ScanDigits(s, j, 0)
        signed == IF neg THEN 0 - whole.n ELSE whole.n
        frac == ScanDigits(s, whole.i + 1, 0)
    IN  IF whole.i = j THEN Bad
        ELSE IF whole.i <= Len(s) /\ Ch(s, whole.i) = "." /\ frac.i > whole.i + 1
        THEN Parsed(JFloat("finite", signed), frac.i)
        ELSE Parsed(JInt(signed), whole.i)

\* the text from the opening quote at i to the closing one; a control
\* character inside it is an error
RECURSIVE ScanString(_, _, _)
ScanString(s, i, acc) ==
    IF i > Len(s) \/ Ch(s, i) \in {"\n", "\t", "\r"} THEN Bad
    ELSE IF Ch(s, i) = "\"" THEN Parsed(JStr(acc), i + 1)
    ELSE ScanString(s, i + 1, acc \o Ch(s, i))

Literal(s, i, word, v) ==
    IF i + Len(word) - 1 <= Len(s) /\ SubSeq(s, i, i + Len(word) - 1) = word
    THEN Parsed(v, i + Len(word)) ELSE Bad

RECURSIVE ScanValue(_, _), ScanMembers(_, _, _), ScanItems(_, _, _)

ScanValue(s, i) ==
    IF i > Len(s) THEN Bad
    ELSE LET c == Ch(s, i)
         IN  IF c = "\"" THEN ScanString(s, i + 1, "")
             ELSE IF c = "{" THEN
                 LET j == SkipWs(s, i + 1)
                 IN  IF j <= Len(s) /\ Ch(s, j) = "}" THEN Parsed(JDict(<<>>), j + 1)
                     ELSE ScanMembers(s, j, <<>>)
             ELSE IF c = "[" THEN
                 LET j == SkipWs(s, i + 1)
                 IN  IF j <= Len(s) /\ Ch(s, j) = "]" THEN Parsed(JList(<<>>), j + 1)
                     ELSE ScanItems(s, j, <<>>)
             ELSE IF c = "n" THEN Literal(s, i, "null", JNull)
             ELSE IF c = "t" THEN Literal(s, i, "true", JBool(TRUE))
             ELSE IF c = "f" THEN Literal(s, i, "false", JBool(FALSE))
             ELSE IF c = "N" THEN Literal(s, i, "NaN", JFloat("nan", 0))
             ELSE IF c = "I" THEN Literal(s, i, "Infinity", JFloat("inf", 0))
             ELSE IF c = "-" /\ i < Len(s) /\ Ch(s, i + 1) = "I"
                  THEN Literal(s, i, "-Infinity", JFloat("inf", 0))
             ELSE ScanNumber(s, i)

\* "key": value pairs from position i on, up to the closing brace; a key
\* given twice keeps its last value
ScanMembers(s, i, d) ==
    IF i > Len(s) \/ Ch(s, i) # "\"" THEN Bad
    ELSE LET key == ScanString(s, i + 1, "")
             colon == SkipWs(s, key.i)
             val == ScanValue(s, SkipWs(s, colon + 1))
             after == SkipWs(s, val.i)
             dict == (key.v.s :> val.v) @@ d
         IN  IF ~key.ok \/ colon > Len(s) \/ Ch(s, colon) # ":" THEN Bad
             ELSE IF ~val.ok \/ after > Len(s) THEN Bad
             ELSE IF Ch(s, after) = "}" THEN Parsed(JDict(dict), after + 1)
             ELSE IF Ch(s, after) = "," THEN ScanMembers(s, SkipWs(s, after + 1), dict)
             ELSE Bad

\* values from position i on, up to the closing bracket
ScanItems(s, i, items) ==
    LET val == ScanValue(s, i)
        after == SkipWs(s, val.i)
    IN  IF ~val.ok \/ after > Len(s) THEN Bad
        ELSE IF Ch(s, after) = "]" THEN Parsed(JList(Append(items, val.v)), after + 1)
        ELSE IF Ch(s, after) = "," THEN ScanItems(s, SkipWs(s, after + 1), Append(items, val.v))
        ELSE Bad

\* json.loads: one value, blanks around it allowed, nothing else after it
JsonLoads(s) ==
    LET val == ScanValue(s, SkipWs(s, 1))
    IN  IF val.ok /\ SkipWs(s, val.i) = Len(s) + 1 THEN val ELSE Bad

\* What an expression evaluates to: a value, or the exception it raises.
Value(v) == [exc |-> "", v |-> v]
Raise(e) == [exc |-> e, v |-> JNull]

\* obj[key] for a string key
GetItem(obj, key) ==
    IF obj.t = "dict"
    THEN IF key \in DOMAIN obj.d THEN Value(obj.d[key]) ELSE Raise("KeyError")
    ELSE Raise("TypeError")

\* int(str): blanks stripped, an optional sign, then digits only
StrToInt(s) ==
    LET a == SkipWs(s, 1)
        neg == a <= Len(s) /\ Ch(s, a) = "-"
        b == IF a <= Len(s) /\ Ch(s, a) \in {"-", "+"} THEN a + 1 ELSE a
        num == ScanDigits(s, b, 0)
    IN  IF num.i > b /\ SkipWs(s, num.i) = Len(s) + 1
        THEN Value(JInt(IF neg THEN 0 - num.n ELSE num.n))
        ELSE Raise("ValueError")

\* int(v)
PyInt(v) ==
    CASE v.t = "int" -> Value(v)
      [] v.t = "bool" -> Value(JInt(v.n))
      [] v.t = "float" -> IF v.kind = "finite" THEN Value(JInt(v.n))
                          ELSE IF v.kind = "nan" THEN Raise("ValueError")
                          ELSE Raise("OverflowError")
      [] v.t = "str" -> StrToInt(v.s)
      [] OTHER -> Raise("TypeError")

\* the slice taken one character short at the end
StripFenceShort(response) ==
    IF StartsWith(response, FenceMarker) THEN Slice(response, 7, 3) ELSE response

\* lines 108-109
StripFence(response) ==
    IF StartsWith(response, FenceMarker) THEN Slice(response, 7, 4) ELSE response

\* line 117
Caught == {"JSONDecodeError", "KeyError", "TypeError"}

Return(a, b) == [kind |-> "return", exc |-> "", a |-> a, b |-> b]
Propagate(e) == [kind |-> "raise", exc |-> e, a |-> 0, b |-> 0]

\* lines 112-113: int(result_json[key])
IntField(result_json, key) ==
    LET item == GetItem(result_json, key)
    IN  IF item.exc # "" THEN item ELSE PyInt(item.v)

\* lines 111-115: the body of the try statement
TryParse(text) ==
    LET result_json == JsonLoads(text)
        statement_is_true == IntField(result_json.v, "statement_is_true")
        statement_topic == IntField(result_json.v, "statement_topic")
    IN  IF ~result_json.ok THEN Propagate("JSONDecodeError")
        ELSE IF statement_is_true.exc # "" THEN Propagate(statement_is_true.exc)
        ELSE IF statement_topic.exc # "" THEN Propagate(statement_topic.exc)
        ELSE Return(statement_is_true.v.n, statement_topic.v.n)

\* lines 117-120: the except clause
Recover(tried) ==
    IF tried.kind = "raise" /\ tried.exc \in Caught THEN Return(0, 0) ELSE tried

\* lines 106-120: step 4 of predict
Parse(response) == Recover(TryParse(StripFence(response)))

(* The responses the generative model is taken to return: a JSON text,    *)
(* or something that is none, with or without a code fence around it.     *)

DigitChar(d) ==
    CASE d = 0 -> "0" [] d = 1 -> "1" [] d = 2 -> "2" [] d = 3 -> "3" [] d = 4 -> "4"
      [] d = 5 -> "5" [] d = 6 -> "6" [] d = 7 -> "7" [] d = 8 -> "8" [] d = 9 -> "9"

RECURSIVE NatText(_)
NatText(n) == IF n < 10 THEN DigitChar(n) ELSE NatText(n \div 10) \o DigitChar(n % 10)
IntText(n) == IF n < 0 THEN "-" \o NatText(0 - n) ELSE NatText(n)

IntLits == -1..MaxIntLit
OtherValueTexts ==
    {"\"1\"", "\"yes\"", "\" 3 \"", "\"\"", "null", "true", "1.5", "-0.5", "NaN",
     "Infinity", "[1]", "{}", ""}
ValueTexts == {IntText(n) : n \in IntLits} \cup OtherValueTexts

ObjectText(is_true, topic) ==
    "{\"statement_is_true\": " \o is_true \o ", \"statement_topic\": " \o topic \o "}"
OtherBodies ==
    {"not json", "", "[1, 3]", "5", "null", "\"statement_is_true\"",
     "{\"statement_is_true\": 1, \"statement_topic\": 3",
     "{\"statement_topic\": 3, \"statement_is_true\": 1, \"why\": \"see text\"}",
     "{\"statement_is_true\":1,\"statement_topic\":3,\"statement_is_true\":0}"}
Bodies ==
    {ObjectText(x, y) : x \in ValueTexts, y \in ValueTexts}
    \cup {"{\"statement_is_true\": " \o x \o "}" : x \in ValueTexts}
    \cup {"{\"statement_topic\": " \o y \o "}" : y \in ValueTexts}
    \cup OtherBodies

Opens == {"", FenceMarker, FenceMarker \o "\n", Fence \o "\n"}
Closes == {"", Fence, "\n" \o Fence, "\n" \o Fence \o "\n", Fence \o "\n"}
Responses == {o \o body \o c : o \in Opens, body \in Bodies, c \in Closes}

\* lines 104-120: llm.invoke has returned response_str; parse it
Predict ==
    /\ prediction = None
    /\ prediction' = Parse(response_str)
    /\ UNCHANGED <<response_str, indexVars>>

----------------------------------------------------------------------------

Init ==
    /\ topics_json \in {NoFile} \cup {File(m) : m \in TopicMaps}
    /\ topics_dir \in TopicDirs
    /\ \E p \in PriorDbs : db = [s \in Scripts |-> p]
    /\ script = 0
    /\ pc = "idle"
    /\ topic_map = <<>>
    /\ topic_folders = {}
    /\ folder_name = ""
    /\ topic_id = 0
    /\ md_files = {}
    /\ all_docs = <<>>
    /\ processed_topics_count = 0
    /\ exit_status = <<>>
    /\ log = <<>>
    /\ runs = 0
    /\ history = <<>>
    /\ response_str = ""
    /\ prediction = None

Next ==
    \/ Start1
    \/ CleanUp1
    \/ LoadTopics1
    \/ ListFolders1
    \/ NextFolder1
    \/ ProcessFile1
    \/ FinalReport1
    \/ CreateStore1
    \/ Start2
    \/ CleanUp2
    \/ LoadTopics2
    \/ ListFolders2
    \/ NextFolder2
    \/ ProcessFile2
    \/ FinalReport2
    \/ CreateStore2

Spec == Init /\ [][Next]_vars

\* One call of predict, on any of the responses.
InitPredict ==
    /\ topics_json = NoFile
    /\ topics_dir = <<>>
    /\ db = [s \in Scripts |-> NoDb]
    /\ script = 0
    /\ pc = "idle"
    /\ topic_map = <<>>
    /\ topic_folders = {}
    /\ folder_name = ""
    /\ topic_id = 0
    /\ md_files = {}
    /\ all_docs = <<>>
    /\ processed_topics_count = 0
    /\ exit_status = <<>>
    /\ log = <<>>
    /\ runs = 0
    /\ history = <<>>
    /\ response_str \in Responses
    /\ prediction = None

NextPredict == Predict

SpecPredict == InitPredict /\ [][NextPredict]_vars

----------------------------------------------------------------------------
(* Claims about predict (SpecPredict) *)

ParseFailure(response) == TryParse(StripFence(response)).kind = "raise"

\* C1: whatever the response, predict does not propagate an error from its
\* parse step, and returns (0, 0) when the response is malformed JSON, lacks
\* one of the two keys or carries a value int() cannot coerce.
C1_ParseFailureReturnsDefault ==
    prediction # None =>
        /\ prediction.kind = "return"
        /\ ParseFailure(response_str) => prediction = Return(0, 0)

\* C3: every pair predict returns has statement_is_true in {0, 1} and an
\* integer statement_topic.
C3_ReturnedPairIsBinaryAndInteger ==
    (prediction # None /\ prediction.kind = "return") =>
        prediction.a \in {0, 1} /\ prediction.b \in Int

\* A response that opens with the fence marker and ends with the closing
\* fence, around the object with integers a and b; gap is what separates the
\* object from the closing fence.
IsFenced(response, a, b, gap) ==
    \E lead \in {"", "\n"} :
        response = FenceMarker \o lead \o ObjectText(IntText(a), IntText(b)) \o gap \o Fence

Unfenced(response) == ~StartsWith(response, FenceMarker)

\* C2 as stated: a fenced object with integers a and b gives (a, b), however
\* the closing fence follows the object; an unfenced response is parsed as is.
C2_AnyClosingFenceReturnsPair ==
    prediction # None =>
        /\ \A a, b \in IntLits : \A gap \in {"", "\n"} :
              IsFenced(response_str, a, b, gap) => prediction = Return(a, b)
        /\ Unfenced(response_str) => prediction = Recover(TryParse(response_str))

\* C2 as amended: a fenced object with integers a and b whose closing fence
\* stands on a line of its own (the last 4 characters are the line break and
\* the fence) gives (a, b); when the fence follows the object directly the
\* last 4 characters take the object's closing brace with them and the
\* result is (0, 0); an unfenced response is parsed as is.
C2_FenceOnOwnLineReturnsPair ==
    prediction # None =>
        /\ \A a, b \in IntLits :
              /\ IsFenced(response_str, a, b, "\n") => prediction = Return(a, b)
              /\ IsFenced(response_str, a, b, "") => prediction = Return(0, 0)
        /\ Unfenced(response_str) => prediction = Recover(TryParse(response_str))

C2_Witness ==
    /\ IsFenced(response_str, 1, 3, "\n")
    /\ prediction = Return(1, 3)

----------------------------------------------------------------------------
(* Claims about the indexing scripts (Spec) *)

\* The processes that have ended, by their place in the history.
EndedRuns == {i \in DOMAIN history : history[i].outcome # "running"}

\* What the corpus holds, read off the file system alone.
IsMapped(d) == topics_json.exists /\ d \in DOMAIN topics_json.map
MdFilesOf(d) == {f \in DOMAIN topics_dir[d] : f \in MdNames}
ChunksOf(d, f) == IF topics_dir[d][f].ok THEN topics_dir[d][f].n ELSE 0
YieldsChunks(d) == \E f \in MdFilesOf(d) : ChunksOf(d, f) > 0
MappedFolders == {d \in DOMAIN topics_dir : IsMapped(d)}
EmptyCorpus == topics_json.exists /\ \A d \in MappedFolders : ~YieldsChunks(d)

Wrote(i) == \E k \in DOMAIN history[i].steps : history[i].steps[k] = "creating"

\* the documents of a sequence or of an index that come from folder d, file f
DocsFrom(docs, d, f) ==
    {k \in DOMAIN docs : docs[k].topic_name = d /\ docs[k].source_file = f}
Pairs(bag) == {<<doc.topic_name, doc.source_file>> : doc \in BagToSet(bag)}

\* C4 as stated: a run over a corpus that yields no chunk halts before the
\* index write and leaves the storage location as it found it.
C4_EmptyCorpusLeavesIndexUntouched ==
    \A i \in EndedRuns :
        EmptyCorpus =>
            /\ history[i].outcome = "exited"
            /\ ~Wrote(i)
            /\ history[i].index = history[i].prior

\* C4 as amended: a run over a corpus that yields no chunk halts before the
\* index write and creates no index; an index that was at the storage
\* location before the run was destroyed by step 3, so none is there after.
C4_EmptyCorpusLeavesNoIndex ==
    \A i \in EndedRuns :
        EmptyCorpus =>
            /\ history[i].outcome = "exited"
            /\ ~Wrote(i)
            /\ history[i].index = NoDb

C4_Witness ==
    \E i \in EndedRuns :
        /\ EmptyCorpus
        /\ MappedFolders # {}
        /\ history[i].prior.exists
        /\ history[i].outcome = "exited"
        /\ ~history[i].index.exists

\* C5: a run ends with a non-zero exit status when the Topic Map file is
\* missing and when no chunk was produced; every other run reaches the
\* index write and completes.
C5_HaltsExitNonZero ==
    \A i \in EndedRuns :
        IF ~topics_json.exists \/ EmptyCorpus
        THEN history[i].outcome = "exited" /\ history[i].status # <<0>>
        ELSE history[i].outcome = "done" /\ Wrote(i)

\* C6: at every point of a run every chunk collected, and every chunk a run
\* wrote to the index, has a topic_name that is a key of the Topic Map and
\* the topic_id the Topic Map gives for it.
TopicMatches(doc) ==
    /\ topics_json.exists
    /\ doc.topic_name \in DOMAIN topics_json.map
    /\ doc.topic_id = topics_json.map[doc.topic_name]

C6_ChunkTopicsMatchTopicMap ==
    /\ \A k \in DOMAIN all_docs : TopicMatches(all_docs[k])
    /\ \A i \in EndedRuns :
          history[i].outcome = "done" =>
              \A doc \in BagToSet(history[i].index.docs) : TopicMatches(doc)

C6_Witness ==
    /\ pc = "done"
    /\ \E j, k \in DOMAIN all_docs :
          /\ all_docs[j].topic_name # all_docs[k].topic_name
          /\ all_docs[j].topic_id # all_docs[k].topic_id
    /\ \E i \in EndedRuns : history[i].index.docs = SeqToBag(all_docs)

\* C7 as stated: with a folder on disk that is no Topic Map key, the run
\* produces no chunk named after it, and completes when some other folder
\* on disk is mapped.
UnmappedFolders == {d \in DOMAIN topics_dir : topics_json.exists /\ ~IsMapped(d)}
NoChunkNamed(d) ==
    /\ \A k \in DOMAIN all_docs : all_docs[k].topic_name # d
    /\ \A s \in Scripts : \A doc \in BagToSet(db[s].docs) : doc.topic_name # d

C7_CompletesIfAnotherFolderMapped ==
    \A u \in UnmappedFolders :
        /\ NoChunkNamed(u)
        /\ \A i \in EndedRuns :
              MappedFolders # {} => history[i].outcome = "done" /\ Wrote(i)

\* C7 as amended: with a folder on disk that is no Topic Map key, the run
\* produces no chunk named after it, and completes when some other folder
\* on disk is mapped and yields at least one chunk.
C7_CompletesIfAnotherFolderYieldsChunks ==
    \A u \in UnmappedFolders :
        /\ NoChunkNamed(u)
        /\ \A i \in EndedRuns :
              (\E d \in MappedFolders : YieldsChunks(d)) =>
                  history[i].outcome = "done" /\ Wrote(i)

C7_Witness ==
    \E u \in UnmappedFolders :
        /\ YieldsChunks(u)
        /\ pc = "done"
        /\ all_docs # <<>>
        /\ \E e \in DOMAIN log : log[e] = Entry("warning_unmapped", u, "")

\* C8: a file whose reading or splitting fails is reported and contributes
\* no chunk; the chunks of every other file of every mapped folder are all
\* collected by the time the folder loop ends, whatever failed before or
\* after them, and the run goes on to step 6.
Reported(d, f) == \E e \in DOMAIN log : log[e] = Entry("error_file", d, f)

C8_FileFailureSkipsOnlyThatFile ==
    (topics_json.exists /\ pc \in {"report", "store", "done", "exited"}) =>
        \A d \in MappedFolders : \A f \in MdFilesOf(d) :
            /\ Cardinality(DocsFrom(all_docs, d, f)) = ChunksOf(d, f)
            /\ Reported(d, f) <=> ~topics_dir[d][f].ok

C8_Witness ==
    /\ pc = "done"
    /\ \E d, d2 \in MappedFolders : \E f, f2, f3 \in MdNames :
          /\ d # d2 /\ f # f2
          /\ Reported(d, f)
          /\ DocsFrom(all_docs, d, f2) # {}
          /\ DocsFrom(all_docs, d2, f3) # {}

\* C9: two runs of a script in succession over the unchanged corpus each
\* leave an index with the same number of chunks and the same (topic_name,
\* source_file) pairs, and the index the later run writes holds exactly the
\* chunks that run collected.
C9_RebuildIsIdempotent ==
    /\ \A i, j \in EndedRuns :
          (i < j /\ history[i].script = history[j].script) =>
              /\ history[j].index.exists = history[i].index.exists
              /\ BagCardinality(history[j].index.docs) = BagCardinality(history[i].index.docs)
              /\ Pairs(history[j].index.docs) = Pairs(history[i].index.docs)
    /\ pc = "done" => db[script].docs = SeqToBag(all_docs)

C9_Witness ==
    /\ pc = "done"
    /\ \E i, j \in EndedRuns :
          /\ i < j /\ history[i].script = history[j].script
          /\ history[i].prior.exists
          /\ history[j].prior = history[i].index
          /\ BagCardinality(history[j].index.docs) > 1

\* C10: run from the same prior index over the same Topic Map and corpus,
\* the two scripts go through the same steps, end the same way and leave
\* the same index.
C10_ScriptsAgree ==
    \A i, j \in EndedRuns :
        (history[i].script # history[j].script /\ history[i].prior = history[j].prior) =>
            /\ history[i].steps = history[j].steps
            /\ history[i].outcome = history[j].outcome
            /\ history[i].status = history[j].status
            /\ history[i].index = history[j].index

C10_Witness ==
    \E i, j \in EndedRuns :
        /\ history[i].script = 1 /\ history[j].script = 2
        /\ history[i].prior = history[j].prior
        /\ history[i].prior.exists
        /\ history[i].outcome = "done" /\ history[j].outcome = "done"
        /\ BagCardinality(history[j].index.docs) > 1

====
